---- MODULE Spec2Model ----
(***************************************************************************)
(* EduStack backend (Express + Prisma): the enrollment, progress, payment, *)
(* course, category and register routes, and the auth and validation       *)
(* middleware in front of them.                                            *)
(*                                                                         *)
(* A request is served by a slot of Procs.  Every `await` on the database  *)
(* in a handler is one step of the slot, so two requests interleave at the *)
(* statement level; a prisma.$transaction callback is one step that either *)
(* commits all of its statements or none.                                  *)
(***************************************************************************)
EXTENDS Integers, FiniteSets, Sequences, TLC

\* a missing string; NoRow is a missing row
NULL == "null"
NoRow == [row |-> FALSE]

(***************************************************************************)
(* Bounds of the model.                                                    *)
(***************************************************************************)
\* enrollment rows ever created (ids 1..MaxEnrollmentId)
MaxEnrollmentId == 2
\* Stripe payment intents ever created
MaxPayments == 1
\* course rows created through POST /api/courses
MaxDrafts == 1

Procs == {"r1", "r2"}

(***************************************************************************)
(* Rows the database holds when the server starts: users with their roles  *)
(* and profiles, courses with their sections and lessons.  No route of the *)
(* backend creates users' roles/permissions, sections or lessons.          *)
(***************************************************************************)
Users == {"stu", "tut", "adm", "sadm", "ina"}
GhostUser == "ghost"

UserTable ==
  [u \in Users |->
     CASE u = "stu"  -> [isActive |-> TRUE,  roles |-> {"student"},
                         studentProfile |-> "S1", tutorProfile |-> NULL, adminProfile |-> NULL]
       [] u = "ina"  -> [isActive |-> FALSE, roles |-> {"student"},
                         studentProfile |-> "S2", tutorProfile |-> NULL, adminProfile |-> NULL]
       [] u = "tut"  -> [isActive |-> TRUE,  roles |-> {"tutor"},
                         studentProfile |-> NULL, tutorProfile |-> "T1", adminProfile |-> NULL]
       [] u = "adm"  -> [isActive |-> TRUE,  roles |-> {"admin"},
                         studentProfile |-> NULL, tutorProfile |-> NULL, adminProfile |-> "A1"]
       [] u = "sadm" -> [isActive |-> TRUE,  roles |-> {"super_admin"},
                         studentProfile |-> NULL, tutorProfile |-> NULL, adminProfile |-> "A2"]]

\* seed.js: the permissions table and the role -> permissions assignment
Permissions ==
  {"create_course", "read_course", "update_course", "delete_course",
   "manage_users", "manage_payments", "moderate_content", "view_analytics"}

Roles == {"super_admin", "admin", "moderator", "tutor", "student"}

rolePermissions ==
  [r \in Roles |->
     CASE r = "super_admin" -> Permissions
       [] r = "admin"       -> {"manage_users", "moderate_content", "view_analytics"}
       [] r = "moderator"   -> {"moderate_content", "read_course"}
       [] r = "tutor"       -> {"create_course", "read_course", "update_course", "view_analytics"}
       [] r = "student"     -> {"read_course"}]

\* a RolePermission row needs both the role and the permission row (seed.js:94)
RolePermissionRows ==
  {<<r, q>> \in Roles \X Permissions : q \in rolePermissions[r]}

\* emails and usernames of accounts: "e0" and "n0" are those of the seeded
\* demo student, the others are free
Emails == {"e0", "e1"}
Usernames == {"n0", "n1"}
SeededAccounts ==
  << [email |-> "e0", username |-> "n0", role |-> "student", profile |-> "student"] >>

Courses == {"c1", "c2"}
Tutors == {"T1", "T2"}

\* c1 is the free course of tutor T1, c2 a paid course (price in cents) of tutor T2
CourseTable ==
  [c \in Courses |->
     IF c = "c1" THEN [tutorId |-> "T1", price |-> 0]
                 ELSE [tutorId |-> "T2", price |-> 100]]

Lessons == {"l1", "l2", "l3"}

\* lesson -> its section's course, the section's isActive, the lesson's isActive.
\* c1 has an active lesson l1 and a deactivated lesson l2; c2 has l3, active.
LessonTable ==
  [l \in Lessons |->
     CASE l = "l1" -> [courseId |-> "c1", sectionActive |-> TRUE, isActive |-> TRUE]
       [] l = "l2" -> [courseId |-> "c1", sectionActive |-> TRUE, isActive |-> FALSE]
       [] l = "l3" -> [courseId |-> "c2", sectionActive |-> TRUE, isActive |-> TRUE]]

LessonsOf(c) == {l \in Lessons : LessonTable[l].courseId = c}
ActiveLessonsOf(c) ==
  {l \in LessonsOf(c) : LessonTable[l].sectionActive /\ LessonTable[l].isActive}

Student == "stu"

VARIABLES
  enrollments,    \* course -> NoRow or the student's enrollment row
  progressRows,   \* lesson -> NoRow or the student's progress row
  certificates,   \* enrollment ids that have a certificate row
  studentStats,   \* the student's profile counters
  courses,        \* course -> NoRow (deleted) or the mutable part of the row
  tutorStats,     \* tutor -> counters
  payments,       \* payment intent id -> NoRow or the payment row
  intents,        \* payment intent id -> NoRow or the Stripe intent (metadata)
  categories,     \* slugs of the category rows
  reviews,        \* courses the student has reviewed
  drafts,         \* course rows created through POST /api/courses
  users,          \* the user rows of the accounts that register, in order of creation
  nextEnrollmentId,
  pc,             \* slot -> "idle", "middleware" or the handler statement it is at
  req,            \* slot -> the request it serves
  loc,            \* slot -> the handler's local variables
  resp            \* the response the last step sent, NoResp when it sent none

dbVars == <<enrollments, progressRows, certificates, studentStats, courses,
            tutorStats, payments, intents, categories, reviews, drafts, users, nextEnrollmentId>>
vars == <<enrollments, progressRows, certificates, studentStats, courses,
          tutorStats, payments, intents, categories, reviews, drafts, users, nextEnrollmentId,
          pc, req, loc, resp>>


(***************************************************************************)
(* Requests.  A request names its route, its Authorization header, its     *)
(* path parameters and the parts of its body the handlers branch on.       *)
(***************************************************************************)
\* Authorization header: absent, "Bearer " with nothing behind it, a token that
\* jwt.verify rejects (bad signature, expired), or a valid token for a user id.
BadHeaders == {"absent", "empty", "badsig", "expired"}
Headers == BadHeaders \cup Users \cup {GhostUser}

StudentRoutes == {"enroll", "listEnrollments", "getEnrollment", "progress", "unenroll",
                  "reviewCreate", "reviewUpdate", "reviewDelete", "createIntent"}
TutorRoutes == {"createCourse", "tutorAnalytics"}
AdminRoutes == {"overview"}
OwnerRoutes == {"updateCourse", "deleteCourse", "publishCourse", "courseStudents"}
CategoryRoutes == {"categoryCreate", "categoryUpdate", "categoryDelete"}
PublicRoutes == {"getCourse", "webhook", "register"}
AuthRoutes == StudentRoutes \cup TutorRoutes \cup AdminRoutes \cup OwnerRoutes \cup CategoryRoutes
ValidatedRoutes == {"reviewCreate", "reviewUpdate", "createCourse", "updateCourse",
                    "categoryCreate", "categoryUpdate", "register"}

NoReq == [route |-> "none", header |-> "absent", courseId |-> NULL, lessonId |-> NULL,
          isCompleted |-> FALSE, valid |-> TRUE, arg |-> NULL, violations |-> {}]
NoLoc == [enrollmentId |-> 0, status |-> NULL, completedLessons |-> 0, pid |-> 0]
NoResp == [slot |-> NULL, route |-> "none", status |-> 0, msg |-> NULL, errors |-> {}]

Req(route, header, c, l, b, v, a) ==
  [route |-> route, header |-> header, courseId |-> c, lessonId |-> l,
   isCompleted |-> b, valid |-> v, arg |-> a, violations |-> {}]

\* keys of the schema a validated route declares: those whose rules the
\* bodies of the model break
SchemaKeys(route) ==
  CASE route \in {"reviewCreate", "reviewUpdate"}     -> {"rating"}
    [] route \in {"createCourse", "updateCourse"}     -> {"title", "price"}
    [] route \in {"categoryCreate", "categoryUpdate"} -> {"name"}
    [] route = "register"                             -> {"email", "password"}
    [] OTHER                                          -> {}

\* the request r with a body in which the keys V break their rules
WithBody(r, V) == [r EXCEPT !.violations = V]

EventTypes == {"payment_intent.succeeded", "payment_intent.payment_failed", "charge.refunded"}
\* the status a PUT /api/courses/:id body sets
UpdateBodies == {"draft", "published"}

(***************************************************************************)
(* middleware/auth.js                                                      *)
(***************************************************************************)
\* req.header('Authorization')?.replace('Bearer ', '')
TokenOf(header) ==
  CASE header = "absent" -> NULL
    [] header = "empty"  -> ""
    [] OTHER             -> header

\* jwt.verify: throws on a bad signature or an expired token, else the payload
JwtVerifyThrows(token) == token \in {"badsig", "expired"}
DecodedUserId(token) == token

\* permissions: role permissions joined with direct user permissions (none are
\* granted by the seed or by any route)
PermissionsOf(u) ==
  {q \in Permissions : \E r \in UserTable[u].roles : <<r, q>> \in RolePermissionRows}

\* auth: 0 when next() is called, else the status it answers with
auth_SkipsIsActive(header) ==
  LET token == TokenOf(header) IN
  IF token = NULL \/ token = "" THEN 401
  ELSE IF JwtVerifyThrows(token) THEN 401
  ELSE IF DecodedUserId(token) \notin Users THEN 401
  ELSE 0

auth(header) ==
  LET token == TokenOf(header) IN
  IF token = NULL \/ token = "" THEN 401
  ELSE IF JwtVerifyThrows(token) THEN 401
  ELSE LET uid == DecodedUserId(token) IN
       IF uid \notin Users THEN 401
       ELSE IF ~UserTable[uid].isActive THEN 401
       ELSE 0

\* req.user after auth; NULL when auth did not run or did not pass
ReqUser(r) ==
  IF r.route \in AuthRoutes /\ auth(r.header) = 0 THEN DecodedUserId(TokenOf(r.header)) ELSE NULL

isStudent_AlwaysNext(u) == 0

isStudent(u) == IF u = NULL \/ UserTable[u].studentProfile = NULL THEN 403 ELSE 0

isTutor(u) == IF u = NULL \/ UserTable[u].tutorProfile = NULL THEN 403 ELSE 0

isAdmin(u) == IF u = NULL \/ UserTable[u].adminProfile = NULL THEN 403 ELSE 0

hasPermission(u, permission) ==
  IF u = NULL THEN 401
  ELSE IF permission \notin PermissionsOf(u) THEN 403
  ELSE 0

\* an answer without an errors list; status 0 is next()
Answer(s, m) == [status |-> s, msg |-> m, errors |-> {}]

\* schema.validate(req[property], { abortEarly: false, ... }): one detail for
\* every key of the body that breaks its rule
JoiValidate(r) == [error |-> r.violations # {}, details |-> r.violations]

validate_AbortEarly(r) ==
  IF JoiValidate(r).error
  THEN [status |-> 400, msg |-> "Validation failed",
        errors |-> {CHOOSE k \in JoiValidate(r).details : TRUE}]
  ELSE Answer(0, NULL)

\* middleware/validation.js: 400 with error.details mapped to errors when the
\* body fails its schema, next() otherwise
validate(r) ==
  IF JoiValidate(r).error
  THEN [status |-> 400, msg |-> "Validation failed", errors |-> JoiValidate(r).details]
  ELSE Answer(0, NULL)

\* the middleware chain of a route, in the order of its declaration: the
\* status and message of the first middleware that answers, or status 0
Chain(r) ==
  LET a == auth(r.header)
      u == ReqUser(r)
      gate == CASE r.route \in StudentRoutes  -> [status |-> isStudent(u), msg |-> "Student access required"]
                [] r.route \in TutorRoutes    -> [status |-> isTutor(u), msg |-> "Tutor access required"]
                [] r.route \in AdminRoutes    -> [status |-> isAdmin(u), msg |-> "Admin access required"]
                [] r.route \in CategoryRoutes -> [status |-> hasPermission(u, "manage_categories"),
                                                  msg |-> "Insufficient permissions"]
                [] OTHER                      -> [status |-> 0, msg |-> NULL]
  IN
  IF r.route \in AuthRoutes /\ a # 0 THEN Answer(a, "Token is not valid")
  ELSE IF r.route \in AuthRoutes /\ gate.status # 0 THEN Answer(gate.status, gate.msg)
  ELSE IF r.route \in ValidatedRoutes THEN validate(r)
  ELSE Answer(0, NULL)


(***************************************************************************)
(* The database.  DB is the part of it that transactions write; Exec runs  *)
(* one Prisma statement on it and yields the new contents, or Failed when  *)
(* the statement throws (record not found, unique or foreign key).         *)
(***************************************************************************)
Failed == [failed |-> TRUE]

DB ==
  [enrollments |-> enrollments, progressRows |-> progressRows,
   certificates |-> certificates, studentStats |-> studentStats,
   courses |-> courses, tutorStats |-> tutorStats, payments |-> payments,
   nextEnrollmentId |-> nextEnrollmentId]

SetDB(d) ==
  /\ enrollments' = d.enrollments
  /\ progressRows' = d.progressRows
  /\ certificates' = d.certificates
  /\ studentStats' = d.studentStats
  /\ courses' = d.courses
  /\ tutorStats' = d.tutorStats
  /\ payments' = d.payments
  /\ nextEnrollmentId' = d.nextEnrollmentId

EnrollmentIds(d) == {d.enrollments[c].id : c \in {x \in Courses : d.enrollments[x] # NoRow}}

CourseOfEnrollment(d, id) ==
  CHOOSE c \in Courses : d.enrollments[c] # NoRow /\ d.enrollments[c].id = id

Exec(d, st) ==
  CASE st.op = "progress.deleteMany" ->
         [d EXCEPT !.progressRows =
            [l \in Lessons |->
               IF d.progressRows[l] # NoRow /\ d.progressRows[l].enrollmentId = st.enrollmentId
               THEN NoRow ELSE d.progressRows[l]]]
    [] st.op = "enrollment.delete" ->
         IF st.enrollmentId \notin EnrollmentIds(d) THEN Failed
         \* rows that still reference the enrollment: the schema's onDelete decides
         ELSE IF st.onDelete = "Restrict"
                 /\ (st.enrollmentId \in d.certificates
                     \/ \E l \in Lessons : d.progressRows[l] # NoRow
                                           /\ d.progressRows[l].enrollmentId = st.enrollmentId)
              THEN Failed
         ELSE [d EXCEPT
                 !.enrollments[CourseOfEnrollment(d, st.enrollmentId)] = NoRow,
                 !.certificates = @ \ {st.enrollmentId},
                 !.progressRows =
                    [l \in Lessons |->
                       IF d.progressRows[l] # NoRow /\ d.progressRows[l].enrollmentId = st.enrollmentId
                       THEN NoRow ELSE d.progressRows[l]]]
    [] st.op = "enrollment.create" ->
         IF d.enrollments[st.courseId] # NoRow \/ d.courses[st.courseId] = NoRow THEN Failed
         ELSE [d EXCEPT
                 !.enrollments[st.courseId] =
                    [id |-> d.nextEnrollmentId, status |-> "ACTIVE", progress |-> 0,
                     completedAt |-> FALSE],
                 !.nextEnrollmentId = @ + 1]
    [] st.op = "course.update" ->
         IF d.courses[st.courseId] = NoRow THEN Failed
         ELSE [d EXCEPT !.courses[st.courseId].totalEnrollments = @ + st.enrollments,
                        !.courses[st.courseId].totalRevenue = @ + st.revenue]
    [] st.op = "tutor.update" ->
         [d EXCEPT !.tutorStats[st.tutorId].totalStudents = @ + st.students,
                   !.tutorStats[st.tutorId].totalEarnings = @ + st.earnings]
    [] st.op = "student.update" ->
         [d EXCEPT !.studentStats.totalCoursesEnrolled = @ + st.enrolled,
                   !.studentStats.totalCoursesCompleted = @ + st.completed]
    [] st.op = "payment.update" ->
         IF d.payments[st.pid] = NoRow THEN Failed
         ELSE [d EXCEPT !.payments[st.pid].status = st.status]

\* the statements of a callback run in order; the first that throws (by itself,
\* or because the database fault hits statement number `fault`) ends the run
RECURSIVE RunStatements(_, _, _, _)
RunStatements(d, stmts, k, fault) ==
  IF k > Len(stmts) THEN [ok |-> TRUE, db |-> d]
  ELSE IF k = fault THEN [ok |-> FALSE, db |-> d]
  ELSE LET n == Exec(d, stmts[k]) IN
       IF n = Failed THEN [ok |-> FALSE, db |-> d]
       ELSE RunStatements(n, stmts, k + 1, fault)

Transaction_NoRollback(d, stmts, fault) ==
  LET r == RunStatements(d, stmts, 1, fault) IN [committed |-> r.ok, db |-> r.db]

\* prisma.$transaction(async (tx) => { ... }): commit when the callback
\* returns, roll back when it throws
Transaction(d, stmts, fault) ==
  LET r == RunStatements(d, stmts, 1, fault) IN
  IF r.ok THEN [committed |-> TRUE, db |-> r.db]
          ELSE [committed |-> FALSE, db |-> d]

(***************************************************************************)
(* Initial state: the rows present when the server starts.  The student is  *)
(* either enrolled nowhere, or has one enrollment (as seed.js creates one)  *)
(* together with completed progress rows for some lessons of that course:   *)
(* rows the schema admits and the handlers read, whoever wrote them.        *)
(***************************************************************************)
InitCourseRow(n) ==
  [isPublished |-> TRUE, status |-> "PUBLISHED", totalEnrollments |-> n, totalRevenue |-> 0]

Init ==
  /\ \E c0 \in Courses \cup {NULL} :
       \E S \in SUBSET Lessons :
         /\ c0 = NULL => S = {}
         /\ c0 # NULL => S \subseteq LessonsOf(c0)
         /\ enrollments = [c \in Courses |->
              IF c = c0 THEN [id |-> 1, status |-> "ACTIVE", progress |-> 0, completedAt |-> FALSE]
                        ELSE NoRow]
         /\ progressRows = [l \in Lessons |->
              IF l \in S THEN [isCompleted |-> TRUE, enrollmentId |-> 1] ELSE NoRow]
         /\ nextEnrollmentId = IF c0 = NULL THEN 1 ELSE 2
         /\ studentStats = [totalCoursesEnrolled |-> IF c0 = NULL THEN 0 ELSE 1,
                            totalCoursesCompleted |-> 0]
         /\ courses = [c \in Courses |-> InitCourseRow(IF c = c0 THEN 1 ELSE 0)]
         /\ tutorStats = [t \in Tutors |->
              [totalStudents |-> IF c0 # NULL /\ CourseTable[c0].tutorId = t THEN 1 ELSE 0,
               totalEarnings |-> 0]]
  /\ certificates = {}
  /\ payments = [i \in 1..MaxPayments |-> NoRow]
  /\ intents = [i \in 1..MaxPayments |-> NoRow]
  /\ categories = {"programming"}
  /\ reviews = {}
  /\ drafts = 0
  /\ users = SeededAccounts
  /\ pc = [p \in Procs |-> "idle"]
  /\ req = [p \in Procs |-> NoReq]
  /\ loc = [p \in Procs |-> NoLoc]
  /\ resp = NoResp

(***************************************************************************)
(* Plumbing of a slot.                                                     *)
(***************************************************************************)
\* res.status(s).json(...), or next(error) when s = 500: the request is over
RespondWith(p, s, m, e) ==
  /\ pc' = [pc EXCEPT ![p] = "idle"]
  /\ resp' = [slot |-> p, route |-> req[p].route, status |-> s, msg |-> m, errors |-> e]
  /\ req' = [req EXCEPT ![p] = NoReq]
  /\ loc' = [loc EXCEPT ![p] = NoLoc]

Respond(p, s, m) == RespondWith(p, s, m, {})

Goto(p, label) ==
  /\ pc' = [pc EXCEPT ![p] = label]
  /\ resp' = NoResp
  /\ UNCHANGED req

\* first handler step of each route
Entry(route) ==
  CASE route = "enroll"       -> "en_findCourse"
    [] route = "progress"     -> "pu_findEnrollment"
    [] route = "unenroll"     -> "un_findEnrollment"
    [] route = "createIntent" -> "ci_findCourse"
    [] route = "webhook"      -> "wh_event"
    [] route = "deleteCourse" -> "dc_findCourse"
    [] route = "register"     -> "rg_findExisting"
    [] OTHER                  -> "handler"

\* a request arrives at an idle slot
Arrive(p, R) ==
  /\ pc[p] = "idle"
  /\ \E r \in R : req' = [req EXCEPT ![p] = r]
  /\ pc' = [pc EXCEPT ![p] = "middleware"]
  /\ resp' = NoResp
  /\ UNCHANGED <<dbVars, loc>>

\* the route's middleware chain: the first middleware that answers ends the
\* request, otherwise the handler is entered
Middleware(p) ==
  /\ pc[p] = "middleware"
  /\ LET m == Chain(req[p]) IN
     IF m.status # 0
     THEN RespondWith(p, m.status, m.msg, m.errors)
     ELSE Goto(p, Entry(req[p].route)) /\ UNCHANGED loc
  /\ UNCHANGED dbVars


(***************************************************************************)
(* PUT /api/enrollments/:courseId/progress/:lessonId                       *)
(***************************************************************************)
\* (completedLessons / totalLessons) * 100, as an integer percentage
courseProgress(completedLessons, totalLessons) ==
  IF totalLessons > 0 THEN (completedLessons * 100) \div totalLessons ELSE 0

\* lesson.count: active lessons in active sections of the course
totalLessons(c) == Cardinality(ActiveLessonsOf(c))

\* progress.count: the student's completed rows on any lesson of the course
completedLessons(c) ==
  Cardinality({l \in LessonsOf(c) : progressRows[l] # NoRow /\ progressRows[l].isCompleted})

\* the argument of progress.upsert reads `progress?.completedAt` when
\* isCompleted is truthy, inside the initializer of `const progress`:
\* a ReferenceError (temporal dead zone) before the upsert is sent
UpsertArgumentThrows(isCompleted) == isCompleted

pu_findEnrollment(p) ==
  /\ pc[p] = "pu_findEnrollment"
  /\ LET c == req[p].courseId
         e == enrollments[c] IN
     IF e = NoRow
     THEN Respond(p, 404, "Enrollment not found")
     ELSE IF req[p].lessonId \notin LessonsOf(c)
     THEN Respond(p, 404, "Lesson not found")
     ELSE /\ loc' = [loc EXCEPT ![p].enrollmentId = e.id, ![p].status = e.status]
          /\ Goto(p, "pu_upsert")
  /\ UNCHANGED dbVars

pu_upsert(p) ==
  /\ pc[p] = "pu_upsert"
  /\ LET l == req[p].lessonId IN
     IF UpsertArgumentThrows(req[p].isCompleted)
     THEN Respond(p, 500, "ReferenceError") /\ UNCHANGED progressRows
     ELSE IF progressRows[l] # NoRow
     \* update: every field of the update is `falsy || undefined`, nothing is written
     THEN Goto(p, "pu_count") /\ UNCHANGED <<progressRows, loc>>
     ELSE IF loc[p].enrollmentId \notin EnrollmentIds(DB)
     \* create: the enrollment row is gone, foreign key violation
     THEN Respond(p, 500, "PrismaError") /\ UNCHANGED progressRows
     ELSE /\ progressRows' = [progressRows EXCEPT ![l] =
                 [isCompleted |-> FALSE, enrollmentId |-> loc[p].enrollmentId]]
          /\ Goto(p, "pu_count") /\ UNCHANGED loc
  /\ UNCHANGED <<enrollments, certificates, studentStats, courses, tutorStats,
                 payments, intents, categories, reviews, drafts, users, nextEnrollmentId>>

pu_count(p) ==
  /\ pc[p] = "pu_count"
  /\ loc' = [loc EXCEPT ![p].completedLessons = completedLessons(req[p].courseId)]
  /\ Goto(p, "pu_updateEnrollment")
  /\ UNCHANGED dbVars

\* courseProgress === 100 && enrollment.status !== 'COMPLETED'
JustCompleted(p) ==
  /\ courseProgress(loc[p].completedLessons, totalLessons(req[p].courseId)) = 100
  /\ loc[p].status # "COMPLETED"

pu_updateEnrollment(p) ==
  /\ pc[p] = "pu_updateEnrollment"
  /\ LET c == req[p].courseId
         cp == courseProgress(loc[p].completedLessons, totalLessons(c)) IN
     IF enrollments[c] = NoRow
     THEN Respond(p, 500, "PrismaError") /\ UNCHANGED enrollments
     ELSE /\ enrollments' = [enrollments EXCEPT ![c] =
                 IF JustCompleted(p)
                 THEN [@ EXCEPT !.progress = cp, !.status = "COMPLETED", !.completedAt = TRUE]
                 ELSE [@ EXCEPT !.progress = cp]]
          /\ IF JustCompleted(p)
             THEN Goto(p, "pu_studentUpdate") /\ UNCHANGED loc
             ELSE Respond(p, 200, "Progress updated successfully")
  /\ UNCHANGED <<progressRows, certificates, studentStats, courses, tutorStats,
                 payments, intents, categories, reviews, drafts, users, nextEnrollmentId>>

pu_studentUpdate(p) ==
  /\ pc[p] = "pu_studentUpdate"
  /\ studentStats' = [studentStats EXCEPT !.totalCoursesCompleted = @ + 1]
  /\ Goto(p, "pu_certificateCreate")
  /\ UNCHANGED <<enrollments, progressRows, certificates, courses, tutorStats,
                 payments, intents, categories, reviews, drafts, users, nextEnrollmentId, loc>>

pu_certificateCreate(p) ==
  /\ pc[p] = "pu_certificateCreate"
  /\ LET id == loc[p].enrollmentId IN
     IF id \in certificates \/ id \notin EnrollmentIds(DB)
     \* enrollmentId is unique on certificates and references the enrollment
     THEN Respond(p, 500, "PrismaError") /\ UNCHANGED certificates
     ELSE /\ certificates' = certificates \cup {id}
          /\ Respond(p, 200, "Progress updated successfully")
  /\ UNCHANGED <<enrollments, progressRows, studentStats, courses, tutorStats,
                 payments, intents, categories, reviews, drafts, users, nextEnrollmentId>>

(***************************************************************************)
(* DELETE /api/enrollments/:courseId                                       *)
(***************************************************************************)
un_findEnrollment(p) ==
  /\ pc[p] = "un_findEnrollment"
  /\ LET e == enrollments[req[p].courseId] IN
     IF e = NoRow
     THEN Respond(p, 404, "Enrollment not found")
     ELSE IF e.status = "COMPLETED"
     THEN Respond(p, 400, "Cannot unenroll from completed course")
     ELSE /\ loc' = [loc EXCEPT ![p].enrollmentId = e.id, ![p].status = e.status]
          /\ Goto(p, "un_transaction")
  /\ UNCHANGED dbVars

UnenrollStatements(id, c, onDelete) ==
  << [op |-> "progress.deleteMany", enrollmentId |-> id],
     [op |-> "enrollment.delete", enrollmentId |-> id, onDelete |-> onDelete],
     [op |-> "course.update", courseId |-> c, enrollments |-> -1, revenue |-> 0],
     [op |-> "student.update", enrolled |-> -1, completed |-> 0] >>

un_transaction(p) ==
  /\ pc[p] = "un_transaction"
  \* fault: the statement a database error hits, 0 for none; onDelete: what the
  \* schema does to rows that still reference a deleted enrollment
  /\ \E fault \in 0..4, onDelete \in {"Restrict", "Cascade"} :
       LET t == Transaction(DB, UnenrollStatements(loc[p].enrollmentId, req[p].courseId, onDelete),
                            fault) IN
       /\ SetDB(t.db)
       /\ IF t.committed
          THEN Respond(p, 200, "Successfully unenrolled from course")
          ELSE Respond(p, 500, "PrismaError")
  /\ UNCHANGED <<intents, categories, reviews, drafts, users>>


(***************************************************************************)
(* POST /api/enrollments/:courseId                                         *)
(***************************************************************************)
\* course.findUnique({ id, isPublished: true, status: 'PUBLISHED' })
PublishedCourse(c) ==
  courses[c] # NoRow /\ courses[c].isPublished /\ courses[c].status = "PUBLISHED"

en_findCourse(p) ==
  /\ pc[p] = "en_findCourse"
  /\ IF ~PublishedCourse(req[p].courseId)
     THEN Respond(p, 404, "Course not found or not available for enrollment")
     ELSE Goto(p, "en_findExisting") /\ UNCHANGED loc
  /\ UNCHANGED dbVars

en_findExisting_NoPriceCheck(p) ==
  /\ pc[p] = "en_findExisting"
  /\ IF enrollments[req[p].courseId] # NoRow
     THEN Respond(p, 400, "Already enrolled in this course")
     ELSE Goto(p, "en_create") /\ UNCHANGED loc
  /\ UNCHANGED dbVars

en_findExisting(p) ==
  /\ pc[p] = "en_findExisting"
  /\ LET c == req[p].courseId IN
     IF enrollments[c] # NoRow
     THEN Respond(p, 400, "Already enrolled in this course")
     ELSE IF CourseTable[c].price = 0
     THEN Goto(p, "en_create") /\ UNCHANGED loc
     ELSE Respond(p, 402, "Payment required for this course")
  /\ UNCHANGED dbVars

en_create(p) ==
  /\ pc[p] = "en_create"
  /\ nextEnrollmentId <= MaxEnrollmentId
  /\ LET n == Exec(DB, [op |-> "enrollment.create", courseId |-> req[p].courseId]) IN
     IF n = Failed
     THEN Respond(p, 500, "PrismaError") /\ UNCHANGED <<enrollments, nextEnrollmentId>>
     ELSE /\ enrollments' = n.enrollments
          /\ nextEnrollmentId' = n.nextEnrollmentId
          /\ Goto(p, "en_courseUpdate") /\ UNCHANGED loc
  /\ UNCHANGED <<progressRows, certificates, studentStats, courses, tutorStats,
                 payments, intents, categories, reviews, drafts, users>>

en_courseUpdate(p) ==
  /\ pc[p] = "en_courseUpdate"
  /\ LET n == Exec(DB, [op |-> "course.update", courseId |-> req[p].courseId,
                        enrollments |-> 1, revenue |-> 0]) IN
     IF n = Failed
     THEN Respond(p, 500, "PrismaError") /\ UNCHANGED courses
     ELSE courses' = n.courses /\ Goto(p, "en_tutorUpdate") /\ UNCHANGED loc
  /\ UNCHANGED <<enrollments, progressRows, certificates, studentStats, tutorStats,
                 payments, intents, categories, reviews, drafts, users, nextEnrollmentId>>

en_tutorUpdate(p) ==
  /\ pc[p] = "en_tutorUpdate"
  /\ tutorStats' = Exec(DB, [op |-> "tutor.update", tutorId |-> CourseTable[req[p].courseId].tutorId,
                             students |-> 1, earnings |-> 0]).tutorStats
  /\ Goto(p, "en_studentUpdate")
  /\ UNCHANGED <<enrollments, progressRows, certificates, studentStats, courses,
                 payments, intents, categories, reviews, drafts, users, nextEnrollmentId, loc>>

en_studentUpdate_NoIncrement(p) ==
  /\ pc[p] = "en_studentUpdate"
  /\ Respond(p, 201, "Successfully enrolled in course")
  /\ UNCHANGED dbVars

en_studentUpdate(p) ==
  /\ pc[p] = "en_studentUpdate"
  /\ studentStats' = Exec(DB, [op |-> "student.update", enrolled |-> 1, completed |-> 0]).studentStats
  /\ Respond(p, 201, "Successfully enrolled in course")
  /\ UNCHANGED <<enrollments, progressRows, certificates, courses, tutorStats,
                 payments, intents, categories, reviews, drafts, users, nextEnrollmentId>>

(***************************************************************************)
(* POST /api/payments/create-intent                                        *)
(***************************************************************************)
FreePaymentIds == {i \in 1..MaxPayments : intents[i] = NoRow}

ci_findCourse(p) ==
  /\ pc[p] = "ci_findCourse"
  /\ IF ~PublishedCourse(req[p].courseId)
     THEN Respond(p, 404, "Course not found or not available for purchase")
     ELSE IF CourseTable[req[p].courseId].price = 0
     THEN Respond(p, 400, "This course is free")
     ELSE Goto(p, "ci_findExisting") /\ UNCHANGED loc
  /\ UNCHANGED dbVars

ci_findExisting(p) ==
  /\ pc[p] = "ci_findExisting"
  /\ IF enrollments[req[p].courseId] # NoRow
     THEN Respond(p, 400, "Already enrolled in this course")
     ELSE Goto(p, "ci_stripeCreate") /\ UNCHANGED loc
  /\ UNCHANGED dbVars

\* stripe.paymentIntents.create: amount in cents, metadata of the purchase
ci_stripeCreate(p) ==
  /\ pc[p] = "ci_stripeCreate"
  /\ FreePaymentIds # {}
  /\ LET i == CHOOSE x \in FreePaymentIds : \A y \in FreePaymentIds : x <= y
         c == req[p].courseId IN
     /\ intents' = [intents EXCEPT ![i] =
          [amount |-> CourseTable[c].price, courseId |-> c, studentId |-> Student,
           tutorId |-> CourseTable[c].tutorId]]
     /\ loc' = [loc EXCEPT ![p].pid = i]
  /\ Goto(p, "ci_paymentCreate")
  /\ UNCHANGED <<enrollments, progressRows, certificates, studentStats, courses,
                 tutorStats, payments, categories, reviews, drafts, users, nextEnrollmentId>>

ci_paymentCreate(p) ==
  /\ pc[p] = "ci_paymentCreate"
  /\ LET c == req[p].courseId IN
     IF courses[c] = NoRow
     THEN Respond(p, 500, "PrismaError") /\ UNCHANGED payments
     ELSE /\ payments' = [payments EXCEPT ![loc[p].pid] =
               [status |-> "PENDING", courseId |-> c, userId |-> Student]]
          /\ Respond(p, 200, "clientSecret")
  /\ UNCHANGED <<enrollments, progressRows, certificates, studentStats, courses,
                 tutorStats, intents, categories, reviews, drafts, users, nextEnrollmentId>>

(***************************************************************************)
(* POST /api/payments/webhook                                              *)
(***************************************************************************)
\* amounts are kept in cents: totalRevenue grows by the amount, totalEarnings
\* by 85% of it (15% platform fee)
TutorShare(amount) == (amount * 85) \div 100

PaymentSuccessStatements(i) ==
  LET m == intents[i] IN
  << [op |-> "payment.update", pid |-> i, status |-> "COMPLETED"],
     [op |-> "enrollment.create", courseId |-> m.courseId],
     [op |-> "course.update", courseId |-> m.courseId, enrollments |-> 1, revenue |-> m.amount],
     [op |-> "tutor.update", tutorId |-> m.tutorId, students |-> 1,
      earnings |-> TutorShare(m.amount)],
     [op |-> "student.update", enrolled |-> 1, completed |-> 0] >>

handlePaymentSuccess_NoTransaction(i, fault) ==
  Transaction_NoRollback(DB, PaymentSuccessStatements(i), fault).db

\* the error of a rolled back transaction is caught and logged
handlePaymentSuccess(i, fault) == Transaction(DB, PaymentSuccessStatements(i), fault).db

\* payment.update({ status: 'FAILED' }); a missing row is caught and logged
handlePaymentFailure(i) ==
  LET n == Exec(DB, [op |-> "payment.update", pid |-> i, status |-> "FAILED"]) IN
  IF n = Failed THEN DB ELSE n

wh_event(p) ==
  /\ pc[p] = "wh_event"
  /\ LET ev == req[p].arg IN
     IF ~req[p].valid
     \* stripe.webhooks.constructEvent throws on a bad signature
     THEN Respond(p, 400, "Webhook Error") /\ UNCHANGED dbVars
     ELSE /\ CASE ev.type = "payment_intent.succeeded" ->
                    /\ nextEnrollmentId <= MaxEnrollmentId
                    /\ \E fault \in 0..5 : SetDB(handlePaymentSuccess(ev.pid, fault))
               [] ev.type = "payment_intent.payment_failed" ->
                    SetDB(handlePaymentFailure(ev.pid))
               [] OTHER -> SetDB(DB)
          /\ Respond(p, 200, "received")
          /\ UNCHANGED <<intents, categories, reviews, drafts, users>>

(***************************************************************************)
(* DELETE /api/courses/:id                                                 *)
(***************************************************************************)
isOwner_AnyTutor(u, c) == UserTable[u].tutorProfile # NULL

\* req.user.tutorProfile && req.user.tutorProfile.id === course.tutorId
isOwner(u, c) ==
  UserTable[u].tutorProfile # NULL /\ UserTable[u].tutorProfile = CourseTable[c].tutorId

MayManage(u, c) == isOwner(u, c) \/ UserTable[u].adminProfile # NULL

dc_findCourse(p) ==
  /\ pc[p] = "dc_findCourse"
  /\ LET c == req[p].courseId IN
     IF courses[c] = NoRow
     THEN Respond(p, 404, "Course not found")
     ELSE IF ~MayManage(ReqUser(req[p]), c)
     THEN Respond(p, 403, "You can only delete your own courses")
     ELSE Goto(p, "dc_count") /\ UNCHANGED loc
  /\ UNCHANGED dbVars

dc_count(p) ==
  /\ pc[p] = "dc_count"
  /\ IF enrollments[req[p].courseId] # NoRow
     THEN Respond(p, 400, "Cannot delete course with active enrollments. Archive it instead.")
     ELSE Goto(p, "dc_delete") /\ UNCHANGED loc
  /\ UNCHANGED dbVars

dc_delete(p) ==
  /\ pc[p] = "dc_delete"
  /\ LET c == req[p].courseId IN
     IF courses[c] = NoRow
     THEN Respond(p, 500, "PrismaError") /\ UNCHANGED dbVars
     ELSE IF enrollments[c] = NoRow
     THEN /\ courses' = [courses EXCEPT ![c] = NoRow]
          /\ Respond(p, 200, "Course deleted successfully")
          /\ UNCHANGED <<enrollments, progressRows, certificates, studentStats, tutorStats,
                         payments, intents, categories, reviews, drafts, users, nextEnrollmentId>>
     \* an enrollment created since the count still references the course:
     \* the schema's onDelete decides between refusing and cascading
     ELSE \/ Respond(p, 500, "PrismaError") /\ UNCHANGED dbVars
          \/ /\ SetDB([Exec(DB, [op |-> "enrollment.delete", enrollmentId |-> enrollments[c].id,
                                 onDelete |-> "Cascade"])
                       EXCEPT !.courses[c] = NoRow])
             /\ Respond(p, 200, "Course deleted successfully")
             /\ UNCHANGED <<intents, categories, reviews, drafts, users>>


(***************************************************************************)
(* POST /api/auth/register                                                 *)
(***************************************************************************)
\* user.findFirst({ where: { OR: [{ email }, { username }] } })
ExistingUser(a) ==
  {i \in 1..Len(users) : users[i].email = a.email \/ users[i].username = a.username}

\* the unique index on User.email (seed.js upserts users by email)
EmailTaken(a) == \E i \in 1..Len(users) : users[i].email = a.email

\* the unique index on User.username
UsernameTaken(a) == \E i \in 1..Len(users) : users[i].username = a.username

rg_findExisting_EmailOnly(p) ==
  /\ pc[p] = "rg_findExisting"
  /\ IF EmailTaken(req[p].arg)
     THEN Respond(p, 400, "User with this email already exists")
     ELSE Goto(p, "rg_findRole") /\ UNCHANGED loc
  /\ UNCHANGED dbVars

rg_findExisting(p) ==
  /\ pc[p] = "rg_findExisting"
  /\ LET found == ExistingUser(req[p].arg) IN
     IF found # {}
     THEN LET existingUser == users[CHOOSE i \in found : \A j \in found : i <= j] IN
          Respond(p, 400, IF existingUser.email = req[p].arg.email
                          THEN "User with this email already exists"
                          ELSE "Username already taken")
     ELSE Goto(p, "rg_findRole") /\ UNCHANGED loc
  /\ UNCHANGED dbVars

\* role.findUnique({ where: { name: userType } })
rg_findRole(p) ==
  /\ pc[p] = "rg_findRole"
  /\ IF req[p].arg.userType \notin Roles
     THEN Respond(p, 400, "Invalid user type")
     ELSE Goto(p, "rg_create") /\ UNCHANGED loc
  /\ UNCHANGED dbVars

\* user.create with the nested creates of the role assignment and the profile:
\* one statement, which throws when a unique index is violated
rg_create(p) ==
  /\ pc[p] = "rg_create"
  /\ LET a == req[p].arg IN
     IF EmailTaken(a) \/ UsernameTaken(a)
     THEN Respond(p, 500, "PrismaError") /\ UNCHANGED users
     ELSE /\ users' = Append(users, [email |-> a.email, username |-> a.username,
                                     role |-> a.userType, profile |-> a.userType])
          /\ Respond(p, 201, "User registered successfully")
  /\ UNCHANGED <<enrollments, progressRows, certificates, studentStats, courses, tutorStats,
                 payments, intents, categories, reviews, drafts, nextEnrollmentId>>

(***************************************************************************)
(* The remaining routes.  Their handlers are sequences of reads and writes *)
(* that no other modelled request interleaves with; each is one step.      *)
(* HandlerResult is the response and the rows the handler leaves behind.   *)
(***************************************************************************)
Result(s, m) ==
  [status |-> s, msg |-> m, courses |-> courses, categories |-> categories,
   reviews |-> reviews, drafts |-> drafts]

\* course.tutor.userId
TutorUserId(t) == IF t = "T1" THEN "tut" ELSE "tut2"

CategoryNames == {"programming", "design"}
\* the category of the seeded courses
CourseCategory == "programming"

\* GET /api/courses/:id has no auth middleware: req.user is never set
getCourse(r) ==
  LET c == r.courseId
      u == ReqUser(r) IN
  IF courses[c] = NoRow THEN Result(404, "Course not found")
  ELSE IF (~courses[c].isPublished \/ courses[c].status # "PUBLISHED")
          /\ (u = NULL \/ (u # TutorUserId(CourseTable[c].tutorId) /\ UserTable[u].adminProfile = NULL))
  THEN Result(404, "Course not found")
  \* the view counter it increments is not tracked
  ELSE Result(200, "course")

updateCourse(r) ==
  LET c == r.courseId IN
  IF courses[c] = NoRow THEN Result(404, "Course not found")
  ELSE IF ~MayManage(ReqUser(r), c) THEN Result(403, "You can only update your own courses")
  ELSE [Result(200, "Course updated successfully") EXCEPT
          !.courses[c].status = IF r.arg = "draft" THEN "DRAFT" ELSE "PUBLISHED"]

publishCourse(r) ==
  LET c == r.courseId IN
  IF courses[c] = NoRow THEN Result(404, "Course not found")
  ELSE IF ~MayManage(ReqUser(r), c) THEN Result(403, "You can only publish your own courses")
  ELSE IF LessonsOf(c) = {}
  THEN Result(400, "Course must have at least one lesson to be published")
  ELSE [Result(200, "Course published successfully") EXCEPT
          !.courses[c].status = "PUBLISHED", !.courses[c].isPublished = TRUE]

courseStudents(r) ==
  LET c == r.courseId IN
  IF courses[c] = NoRow THEN Result(404, "Course not found")
  ELSE IF ~MayManage(ReqUser(r), c) THEN Result(403, "Access denied")
  ELSE Result(200, "students")

createCourse(r) == [Result(201, "Course created successfully") EXCEPT !.drafts = @ + 1]

getEnrollment(r) ==
  IF enrollments[r.courseId] = NoRow THEN Result(404, "Enrollment not found")
  ELSE Result(200, "enrollment")

reviewCreate(r) ==
  LET c == r.courseId IN
  IF courses[c] = NoRow THEN Result(404, "Course not found")
  ELSE IF enrollments[c] = NoRow
  THEN Result(403, "You must be enrolled in this course to leave a review")
  ELSE IF c \in reviews THEN Result(400, "You have already reviewed this course")
  ELSE [Result(201, "Review created successfully") EXCEPT !.reviews = @ \cup {c}]

reviewUpdate(r) ==
  IF r.courseId \notin reviews THEN Result(404, "Review not found")
  ELSE Result(200, "Review updated successfully")

reviewDelete(r) ==
  IF r.courseId \notin reviews THEN Result(404, "Review not found")
  ELSE [Result(200, "Review deleted successfully") EXCEPT !.reviews = @ \ {r.courseId}]

\* the slug of a category is its lower-cased name; names are modelled by slugs
categoryCreate(r) ==
  IF r.arg \in categories THEN Result(400, "Category with this name already exists")
  ELSE [Result(201, "Category created successfully") EXCEPT !.categories = @ \cup {r.arg}]

categoryUpdate(r) ==
  IF r.arg \notin categories THEN Result(404, "Category not found")
  ELSE Result(200, "Category updated successfully")

categoryDelete(r) ==
  IF r.arg \notin categories THEN Result(404, "Category not found")
  ELSE IF r.arg = CourseCategory /\ \E c \in Courses : courses[c] # NoRow
  THEN Result(400, "Cannot delete category with courses. Move courses to another category first.")
  ELSE [Result(200, "Category deleted successfully") EXCEPT !.categories = @ \ {r.arg}]

HandlerResult(r) ==
  CASE r.route = "getCourse"       -> getCourse(r)
    [] r.route = "updateCourse"    -> updateCourse(r)
    [] r.route = "publishCourse"   -> publishCourse(r)
    [] r.route = "courseStudents"  -> courseStudents(r)
    [] r.route = "createCourse"    -> createCourse(r)
    [] r.route = "listEnrollments" -> Result(200, "enrollments")
    [] r.route = "getEnrollment"   -> getEnrollment(r)
    [] r.route = "reviewCreate"    -> reviewCreate(r)
    [] r.route = "reviewUpdate"    -> reviewUpdate(r)
    [] r.route = "reviewDelete"    -> reviewDelete(r)
    [] r.route = "tutorAnalytics"  -> Result(200, "analytics")
    [] r.route = "overview"        -> Result(200, "overview")
    [] r.route = "categoryCreate"  -> categoryCreate(r)
    [] r.route = "categoryUpdate"  -> categoryUpdate(r)
    [] r.route = "categoryDelete"  -> categoryDelete(r)

Handler(p) ==
  /\ pc[p] = "handler"
  /\ LET h == HandlerResult(req[p]) IN
     /\ courses' = h.courses
     /\ categories' = h.categories
     /\ reviews' = h.reviews
     /\ drafts' = h.drafts
     /\ Respond(p, h.status, h.msg)
  /\ UNCHANGED <<enrollments, progressRows, certificates, studentStats, tutorStats,
                 payments, intents, nextEnrollmentId, users>>

(***************************************************************************)
(* Specifications.  Spec: two slots serving the student's requests on the  *)
(* enrollment routes.  SpecPayments: two slots serving purchases and the   *)
(* events Stripe sends for them.  SpecAccess: one slot serving every route *)
(* for every kind of requester.  SpecCatalog: two slots serving enroll     *)
(* requests next to the unpublishing and deletion of courses.              *)
(* SpecRegister: two slots serving registrations.                          *)
(***************************************************************************)
EnrollmentRequests ==
  {Req("enroll", Student, c, NULL, FALSE, TRUE, NULL) : c \in Courses}
  \cup {Req("progress", Student, LessonTable[l].courseId, l, b, TRUE, NULL) :
          l \in Lessons, b \in BOOLEAN}
  \cup {Req("unenroll", Student, c, NULL, FALSE, TRUE, NULL) : c \in Courses}

\* Stripe sends events for the intents it holds, and may send one again
PaymentRequests ==
  {Req("createIntent", Student, c, NULL, FALSE, TRUE, NULL) :
          c \in {x \in Courses : FreePaymentIds # {}}}
  \cup {Req("webhook", "absent", NULL, NULL, FALSE, v, [type |-> t, pid |-> i]) :
          v \in BOOLEAN, t \in EventTypes, i \in {x \in 1..MaxPayments : intents[x] # NoRow}}

EnrollmentStep(p) ==
  \/ pu_findEnrollment(p) \/ pu_upsert(p) \/ pu_count(p) \/ pu_updateEnrollment(p)
  \/ pu_studentUpdate(p) \/ pu_certificateCreate(p)
  \/ un_findEnrollment(p) \/ un_transaction(p)
  \/ en_findCourse(p) \/ en_findExisting(p) \/ en_create(p) \/ en_courseUpdate(p)
  \/ en_tutorUpdate(p) \/ en_studentUpdate(p)

PaymentStep(p) ==
  \/ ci_findCourse(p) \/ ci_findExisting(p) \/ ci_stripeCreate(p) \/ ci_paymentCreate(p)
  \/ wh_event(p)

CourseStep(p) ==
  \/ dc_findCourse(p) \/ dc_count(p) \/ dc_delete(p)
  \/ Handler(p)

Next == \E p \in Procs : Arrive(p, EnrollmentRequests) \/ Middleware(p) \/ EnrollmentStep(p)

Spec == Init /\ [][Next]_vars

NextPayments == \E p \in Procs : Arrive(p, PaymentRequests) \/ Middleware(p) \/ PaymentStep(p)

SpecPayments == Init /\ [][NextPayments]_vars

\* every route with every kind of Authorization header.  The student's own
\* requests on the enrollment and payment routes are those of Spec and
\* SpecPayments; here these routes receive everybody else's.
AccessRequests ==
  {Req(rt, h, c, NULL, FALSE, TRUE, NULL) :
     rt \in {"enroll", "unenroll", "createIntent"}, h \in Headers \ {Student}, c \in Courses}
  \cup {Req("progress", h, LessonTable[l].courseId, l, FALSE, TRUE, NULL) :
          h \in Headers \ {Student}, l \in {"l1"}}
  \cup {Req(rt, h, "c1", NULL, FALSE, TRUE, NULL) :
          rt \in {"getEnrollment", "reviewDelete"}, h \in Headers}
  \cup {Req(rt, h, c, NULL, FALSE, TRUE, NULL) :
          rt \in {"deleteCourse", "publishCourse", "courseStudents", "getCourse"},
          h \in Headers, c \in Courses}
  \cup {Req(rt, h, NULL, NULL, FALSE, TRUE, NULL) :
          rt \in {"listEnrollments", "tutorAnalytics", "overview"}, h \in Headers}
  \cup UNION {{WithBody(Req(rt, h, "c1", NULL, FALSE, TRUE, NULL), V) :
                   h \in Headers, V \in SUBSET SchemaKeys(rt)} :
                rt \in {"reviewCreate", "reviewUpdate"}}
  \cup {WithBody(Req("updateCourse", h, c, NULL, FALSE, TRUE, a), V) :
          h \in Headers, c \in Courses, a \in UpdateBodies,
          V \in SUBSET SchemaKeys("updateCourse")}
  \cup {WithBody(Req("createCourse", h, NULL, NULL, FALSE, TRUE, NULL), V) :
          h \in {x \in Headers : drafts < MaxDrafts}, V \in SUBSET SchemaKeys("createCourse")}
  \cup UNION {{WithBody(Req(rt, h, NULL, NULL, FALSE, TRUE, a), V) :
                   h \in Headers, a \in CategoryNames, V \in SUBSET SchemaKeys(rt)} :
                rt \in CategoryRoutes}

NextAccess ==
  \/ Arrive("r1", AccessRequests)
  \/ Middleware("r1")
  \/ CourseStep("r1")

SpecAccess == Init /\ [][NextAccess]_vars


\* the student's enroll requests next to the owner's and the admin's requests
\* that unpublish, republish or delete the course
CatalogRequests ==
  {Req("enroll", Student, c, NULL, FALSE, TRUE, NULL) : c \in Courses}
  \cup {Req("deleteCourse", h, c, NULL, FALSE, TRUE, NULL) : h \in {"tut", "adm"}, c \in Courses}
  \cup {Req("updateCourse", h, c, NULL, FALSE, TRUE, a) :
          h \in {"tut", "adm"}, c \in Courses, a \in UpdateBodies}

EnrollStep(p) ==
  \/ en_findCourse(p) \/ en_findExisting(p) \/ en_create(p) \/ en_courseUpdate(p)
  \/ en_tutorUpdate(p) \/ en_studentUpdate(p)

NextCatalog ==
  \E p \in Procs : Arrive(p, CatalogRequests) \/ Middleware(p) \/ EnrollStep(p) \/ CourseStep(p)

SpecCatalog == Init /\ [][NextCatalog]_vars


\* registrations for the seeded and the free emails and usernames
RegisterRequests ==
  {WithBody(Req("register", "absent", NULL, NULL, FALSE, TRUE,
                [email |-> e, username |-> n, userType |-> t]), V) :
     e \in Emails, n \in Usernames, t \in {"student", "tutor"},
     V \in SUBSET SchemaKeys("register")}

RegisterStep(p) == rg_findExisting(p) \/ rg_findRole(p) \/ rg_create(p)

NextRegister ==
  \E p \in Procs : Arrive(p, RegisterRequests) \/ Middleware(p) \/ RegisterStep(p)

SpecRegister == Init /\ [][NextRegister]_vars


(***************************************************************************)
(* Properties.                                                             *)
(***************************************************************************)
\* slot p takes the step
Steps(p) == pc'[p] # pc[p]

\* the user a header authenticates, NULL when it authenticates nobody
Requester(header) ==
  IF header \in Users /\ UserTable[header].isActive THEN header ELSE NULL

HasCompletedRow(l) == progressRows[l] # NoRow /\ progressRows[l].isCompleted

C2_CompletingEveryLessonCompletesCourse ==
  [][\A p \in Procs :
       (/\ req[p].route = "progress" /\ req[p].isCompleted
        /\ pc[p] \notin {"idle", "middleware"} /\ pc'[p] = "idle"
        /\ enrollments[req[p].courseId] # NoRow
        /\ LessonsOf(req[p].courseId) = ActiveLessonsOf(req[p].courseId)
        /\ \A l \in LessonsOf(req[p].courseId) \ {req[p].lessonId} : HasCompletedRow(l)) =>
         LET e == enrollments'[req[p].courseId] IN
         /\ e # NoRow
         /\ e.status = "COMPLETED" /\ e.completedAt
         /\ e.id \in certificates'
         /\ studentStats'.totalCoursesCompleted >= 1]_vars

\* C3: the writes of a progress update are one transaction: they become
\* visible together, in the step that ends the request, so no step that leaves
\* the request in flight changes the database.
C3_ProgressWritesInOneTransaction ==
  [][\A p \in Procs :
       (req[p].route = "progress" /\ Steps(p) /\ pc'[p] # "idle") =>
         UNCHANGED dbVars]_vars

\* the four changes of an unenroll, and nothing else
UnenrollApplied(p) ==
  LET c == req[p].courseId
      id == loc[p].enrollmentId IN
  /\ enrollments[c] # NoRow /\ enrollments[c].id = id
  /\ enrollments' = [enrollments EXCEPT ![c] = NoRow]
  /\ \A l \in Lessons :
       progressRows'[l] = IF progressRows[l] # NoRow /\ progressRows[l].enrollmentId = id
                          THEN NoRow ELSE progressRows[l]
  /\ courses' = [courses EXCEPT ![c].totalEnrollments = @ - 1]
  /\ studentStats' = [studentStats EXCEPT !.totalCoursesEnrolled = @ - 1]
  /\ resp'.status = 200

\* C4: the transaction of an unenroll either deletes the enrollment and its
\* progress rows and decrements course.totalEnrollments and
\* student.totalCoursesEnrolled by one, or leaves the database as it was.
C4_UnenrollAllOrNothing ==
  [][\A p \in Procs :
       (pc[p] = "un_transaction" /\ Steps(p)) =>
         \/ UnenrollApplied(p)
         \/ resp'.status = 500 /\ UNCHANGED dbVars]_vars

C4_Witness == resp.route = "unenroll" /\ resp.status = 200

\* the changes of a handled payment_intent.succeeded, and nothing else
PaymentApplied(i) ==
  LET m == intents[i]
      c == m.courseId IN
  /\ payments' = [payments EXCEPT ![i].status = "COMPLETED"]
  /\ payments[i] # NoRow
  /\ enrollments'[c] # NoRow /\ enrollments'[c].status = "ACTIVE"
  /\ \A x \in Courses \ {c} : enrollments'[x] = enrollments[x]
  /\ courses' = [courses EXCEPT ![c].totalEnrollments = @ + 1,
                                ![c].totalRevenue = @ + m.amount]
  /\ tutorStats' = [tutorStats EXCEPT ![m.tutorId].totalStudents = @ + 1,
                                      ![m.tutorId].totalEarnings = @ + (m.amount * 85) \div 100]
  /\ studentStats' = [studentStats EXCEPT !.totalCoursesEnrolled = @ + 1]

\* C5: handling payment_intent.succeeded for a student not yet enrolled either
\* completes the payment, creates the ACTIVE enrollment and increments
\* course.totalEnrollments, tutor.totalStudents, student.totalCoursesEnrolled
\* (and the revenue and earnings), or leaves the database as it was.
C5_PaymentSuccessAllOrNothing ==
  [][\A p \in Procs :
       (/\ pc[p] = "wh_event" /\ Steps(p) /\ req[p].valid
        /\ req[p].arg.type = "payment_intent.succeeded"
        /\ enrollments[intents[req[p].arg.pid].courseId] = NoRow) =>
         (PaymentApplied(req[p].arg.pid) \/ UNCHANGED dbVars)]_vars

C5_Witness ==
  /\ resp.route = "webhook"
  /\ \E i \in 1..MaxPayments :
       /\ payments[i] # NoRow /\ payments[i].status = "COMPLETED"
       /\ enrollments[payments[i].courseId] # NoRow

\* the requester is authenticated and lacks the profile the route requires
LacksRequiredProfile(r) ==
  LET u == Requester(r.header) IN
  /\ u # NULL
  /\ \/ r.route \in {"enroll", "listEnrollments", "getEnrollment", "progress", "unenroll",
                     "reviewCreate", "reviewUpdate", "reviewDelete", "createIntent"}
        /\ UserTable[u].studentProfile = NULL
     \/ r.route \in {"createCourse", "tutorAnalytics"} /\ UserTable[u].tutorProfile = NULL
     \/ r.route = "overview" /\ UserTable[u].adminProfile = NULL

\* C6: a role-restricted route answers an authenticated user who lacks the
\* profile it requires with 403, its handler does not run and nothing changes.
C6_RoleGateRejects ==
  [][\A p \in Procs :
       (pc[p] = "middleware" /\ Steps(p) /\ LacksRequiredProfile(req[p])) =>
         /\ resp'.status = 403
         /\ pc'[p] = "idle"
         /\ UNCHANGED dbVars]_vars

C6_Witness ==
  /\ resp.status = 403
  /\ resp.route \in {"enroll", "createCourse", "overview"}
  /\ resp.msg \in {"Student access required", "Tutor access required", "Admin access required"}

\* the requester's tutor profile owns the course, or the requester has an admin profile
OwnsOrAdministers(u, c) ==
  \/ UserTable[u].tutorProfile # NULL /\ UserTable[u].tutorProfile = CourseTable[c].tutorId
  \/ UserTable[u].adminProfile # NULL

\* C7: updating, deleting, publishing a course and listing its students succeed
\* only for the tutor who owns the course and for admins; any other
\* authenticated requester of an existing course gets 403, and the answer
\* neither changes nor discloses anything.
C7_OwnerOrAdminOnly ==
  [][\A p \in Procs :
       (/\ req[p].route \in {"updateCourse", "deleteCourse", "publishCourse", "courseStudents"}
        /\ pc[p] \notin {"idle", "middleware"} /\ Steps(p)) =>
         LET u == Requester(req[p].header)
             c == req[p].courseId IN
         /\ (courses[c] # NoRow /\ ~OwnsOrAdministers(u, c)) =>
               /\ resp'.status = 403
               /\ resp'.msg \notin {"students", "course"}
               /\ UNCHANGED dbVars
         /\ (resp'.status = 200 \/ courses' # courses) => OwnsOrAdministers(u, c)]_vars

C7_Witness ==
  /\ resp.status = 403
  /\ resp.route \in {"updateCourse", "deleteCourse", "publishCourse", "courseStudents"}

\* C8: GET /api/courses/:id of a course that is not published answers its
\* owning tutor and admins with the course, and everyone else with 404.
C8_UnpublishedCourseVisibleToOwnerAndAdmin ==
  [][\A p \in Procs :
       (/\ req[p].route = "getCourse" /\ pc[p] = "handler" /\ Steps(p)
        /\ courses[req[p].courseId] # NoRow
        /\ (~courses[req[p].courseId].isPublished
            \/ courses[req[p].courseId].status # "PUBLISHED")) =>
         LET u == Requester(req[p].header) IN
         IF u # NULL /\ OwnsOrAdministers(u, req[p].courseId)
         THEN resp'.status = 200 /\ resp'.msg = "course"
         ELSE resp'.status = 404]_vars

\* C9: with the seeded roles and permissions, the permission check of the
\* category routes lets a user with the admin or super_admin role through and
\* answers a student or a tutor with 403.
C9_AdminsManageCategories ==
  [][\A p \in Procs :
       (/\ req[p].route \in {"categoryCreate", "categoryUpdate", "categoryDelete"}
        /\ pc[p] = "middleware" /\ Steps(p)
        /\ Requester(req[p].header) # NULL) =>
         LET roles == UserTable[Requester(req[p].header)].roles IN
         /\ roles \cap {"admin", "super_admin"} # {} =>
              (resp'.status # 403 /\ (req[p].violations = {} => pc'[p] = "handler"))
         /\ roles \cap {"admin", "super_admin"} = {} => resp'.status = 403]_vars

\* no token, an invalid or expired token, the token of a missing or inactive user
BadCredentials(header) ==
  \/ header \in {"absent", "empty", "badsig", "expired"}
  \/ header \notin Users
  \/ ~UserTable[header].isActive

\* C10: a request to a route behind auth that carries no token, an invalid or
\* expired token, or the token of a missing or inactive user is answered 401;
\* the handler does not run and nothing changes.
C10_AuthRejects ==
  [][\A p \in Procs :
       (/\ pc[p] = "middleware" /\ Steps(p)
        /\ req[p].route \notin {"getCourse", "webhook"}
        /\ BadCredentials(req[p].header)) =>
         /\ resp'.status = 401
         /\ pc'[p] = "idle"
         /\ UNCHANGED dbVars]_vars

C10_Witness == resp.status = 401 /\ resp.route = "unenroll"

\* the middleware declared before validate lets the request through
ReachesValidate(r) ==
  /\ r.route \in {"reviewCreate", "reviewUpdate", "createCourse", "updateCourse"}
  /\ Requester(r.header) # NULL
  /\ ~LacksRequiredProfile(r)

\* C11: a request to a validated route whose body fails the schema, once the
\* middleware declared before validate has let it through, is answered 400
\* 'Validation failed' with one error for every violation; the handler is not
\* entered and nothing changes.  No request with a failing body reaches the
\* handler of a validated route or changes the database.
C11_ValidationRejects ==
  [][\A p \in Procs :
       (/\ pc[p] = "middleware" /\ Steps(p)
        /\ SchemaKeys(req[p].route) # {}
        /\ req[p].violations # {}) =>
         /\ pc'[p] = "idle"
         /\ UNCHANGED dbVars
         /\ ReachesValidate(req[p]) =>
              /\ resp'.status = 400
              /\ resp'.msg = "Validation failed"
              /\ resp'.errors = req[p].violations]_vars

C11_Witness ==
  /\ resp.status = 400 /\ resp.msg = "Validation failed"
  /\ resp.route = "updateCourse"
  /\ resp.errors = {"title", "price"}

\* C12: an enroll request answered 201 was made for a published course of
\* price 0 in which the student was not enrolled, and on its way to the 201 it
\* has created the one ACTIVE enrollment of (student, course), then incremented
\* course.totalEnrollments, tutor.totalStudents and
\* student.totalCoursesEnrolled by exactly one each, writing nothing else.
C12_FreeEnrollCreatesAndCounts ==
  [][\A p \in Procs :
       (req[p].route = "enroll" /\ Steps(p)) =>
         LET c == req[p].courseId
             t == CourseTable[c].tutorId IN
         /\ pc'[p] = "en_create" =>
              /\ pc[p] = "en_findExisting"
              /\ courses[c] # NoRow /\ courses[c].isPublished /\ courses[c].status = "PUBLISHED"
              /\ CourseTable[c].price = 0
              /\ enrollments[c] = NoRow
              /\ UNCHANGED dbVars
         /\ pc'[p] = "en_courseUpdate" =>
              /\ pc[p] = "en_create"
              /\ enrollments[c] = NoRow
              /\ enrollments'[c] # NoRow /\ enrollments'[c].status = "ACTIVE"
              /\ \A x \in Courses \ {c} : enrollments'[x] = enrollments[x]
              /\ UNCHANGED <<progressRows, certificates, studentStats, courses, tutorStats,
                             payments, intents, categories, reviews, drafts, users>>
         /\ pc'[p] = "en_tutorUpdate" =>
              /\ pc[p] = "en_courseUpdate"
              /\ courses' = [courses EXCEPT ![c].totalEnrollments = @ + 1]
              /\ UNCHANGED <<enrollments, progressRows, certificates, studentStats, tutorStats>>
         /\ pc'[p] = "en_studentUpdate" =>
              /\ pc[p] = "en_tutorUpdate"
              /\ tutorStats' = [tutorStats EXCEPT ![t].totalStudents = @ + 1]
              /\ UNCHANGED <<enrollments, progressRows, certificates, studentStats, courses>>
         /\ resp'.status = 201 =>
              /\ pc[p] = "en_studentUpdate"
              /\ studentStats' = [studentStats EXCEPT !.totalCoursesEnrolled = @ + 1]
              /\ UNCHANGED <<enrollments, progressRows, certificates, courses, tutorStats>>]_vars

C12_Witness ==
  /\ resp.route = "enroll" /\ resp.status = 201
  /\ \E c \in Courses : enrollments[c] # NoRow /\ enrollments[c].status = "ACTIVE"

\* the course row is missing, or is not both isPublished and PUBLISHED
NotOpenForEnrollment(c) ==
  courses[c] = NoRow \/ ~courses[c].isPublished \/ courses[c].status # "PUBLISHED"

C15_CourseWithEnrollmentIsKept ==
  [][/\ \A p \in Procs :
          (/\ req[p].route = "deleteCourse" /\ Steps(p)
           /\ pc[p] \in {"dc_count", "dc_delete"}
           /\ enrollments[req[p].courseId] # NoRow) =>
            /\ resp'.status = 400
            /\ courses'[req[p].courseId] = courses[req[p].courseId]
     /\ \A c \in Courses :
          (enrollments[c] # NoRow /\ courses[c] # NoRow) => courses'[c] # NoRow
     /\ \A c \in Courses : enrollments'[c] # NoRow => courses'[c] # NoRow]_vars

\* an account with this email or this username exists
AlreadyUsed(a) ==
  \E i \in 1..Len(users) : users[i].email = a.email \/ users[i].username = a.username

====
